---- MODULE Spec2Model ----
(***************************************************************************)
(* A model of rizza's entity tester (src/rizza/entity_tester.py):          *)
(* EntityTester.prep, the lazy generator EntityTester.brute_force, and     *)
(* EntityTestTask.execute.  The helpers imported from rizza.helpers.misc   *)
(* (combination_list, product_list, map_field_inputs,                      *)
(* dictionary_exclusion) are not part of the sources at hand; they are     *)
(* modelled from the design document (sections 4.1 and 8).                 *)
(***************************************************************************)
EXTENDS Integers, Sequences, FiniteSets, TLC

VARIABLES entity, fields, methods, excl, prepped, gen, prev, task, orig, outcome, execs

vars == <<entity, fields, methods, excl, prepped, gen, prev, task, orig, outcome, execs>>
testerVars == <<entity, fields, methods, excl, prepped, gen, prev>>
taskVars == <<task, orig, outcome, execs>>

(* ------------------------------ bounds ------------------------------- *)
\* largest max_fields / max_inputs argument handed to brute_force
MaxFieldsArg == 2
MaxInputsArg == 2
\* how often one task is executed, and the range of a generator's values
MaxExec == 2
MaxRand == 1

(* ---------------------------- Python values -------------------------- *)
\* the default of brute_force's max_fields / max_inputs parameters
None == -1

\* a string, a value produced by a generator, an unhashable literal (a list)
Str(s) == [kind |-> "str", of |-> s, n |-> 0]
Produced(g, k) == [kind |-> "val", of |-> g, n |-> k]
ListLit == [kind |-> "list", of |-> "", n |-> 0]
Hashable(v) == v.kind # "list"

\* an attribute that still holds its default None, and one that holds a dict
Unset == [unset |-> TRUE, keys |-> <<>>]
Dict(ks) == [unset |-> FALSE, keys |-> ks]

(* ------------------------- sequence utilities ------------------------ *)
Range(s) == {s[i] : i \in DOMAIN s}

RECURSIVE Flatten(_)
Flatten(ss) == IF ss = <<>> THEN <<>> ELSE Head(ss) \o Flatten(Tail(ss))

Remove(s, i) == SubSeq(s, 1, i - 1) \o SubSeq(s, i + 1, Len(s))

IndexOf(s, x) == CHOOSE i \in DOMAIN s : s[i] = x

\* itertools.combinations(s, k), in its order
RECURSIVE Combos(_, _)
Combos(s, k) ==
  IF k = 0 THEN << <<>> >>
  ELSE IF Len(s) < k THEN <<>>
  ELSE LET with == Combos(Tail(s), k - 1)
       IN  [i \in 1..Len(with) |-> <<Head(s)>> \o with[i]] \o Combos(Tail(s), k)

\* itertools.permutations(s), in its order
RECURSIVE Perms(_)
Perms(s) ==
  IF s = <<>> THEN << <<>> >>
  ELSE Flatten([i \in 1..Len(s) |->
         LET r == Perms(Remove(s, i))
         IN  [j \in 1..Len(r) |-> <<s[i]>> \o r[j]]])

(* ------------------------------ registries --------------------------- *)
\* nailgun.entities, as pull_entities lists it (dir() order)
Entities == <<"Gadget", "Widget">>

\* entity()._fields, in dictionary order
EntityFields(e) ==
  IF e = "Widget" THEN <<"name", "size">> ELSE <<>>

\* the methods inspect.getmembers finds (sorted by name)
EntityMethods(e) ==
  IF e = "Widget" THEN <<"create", "search", "update">> ELSE <<"create", "read">>

\* inspect.getargspec(method).args without self
PullArgs(e, m) ==
  IF m = "search" THEN <<"query", "per_page">>
  ELSE IF m = "update" THEN <<"fields">>
  ELSE IF m = "read" THEN <<"ignore">>
  ELSE <<>>

\* rizza.helpers.inputs, as dir() lists it
InputMethods == <<"gen_alpha", "gen_integer", "gen_long_string">>

\* the generators the exclusion term 'long' stands for
LongInputs == {"gen_long_string"}

(* -------------------- rizza.helpers.misc (from the design) ----------- *)
\* whether an exclusion term drops a name
Matches(term, name) == term = name \/ (term = "long" /\ name \in LongInputs)

\* dictionary_exclusion(indict, exclude): the keys that remain
DictionaryExclusion(keys, exclude) ==
  SelectSeq(keys, LAMBDA k : ~ \E t \in exclude : Matches(t, k))

\* combination_list(collection, max_size): every combination of every size
\* from 1 up to max_size (the full size if unspecified, clamped if larger)
CombinationList(collection, max_size) ==
  LET n == Len(collection)
      m == IF max_size = None \/ max_size > n THEN n ELSE max_size
  IN  Flatten([i \in 1..m |-> Combos(collection, i)])

\* product_list(in_list, max_len): the generator combinations of every size
\* from 1 up to max_len
ProductList(in_list, max_len) ==
  LET n == Len(in_list)
      m == IF max_len = None \/ max_len > n THEN n ELSE max_len
  IN  Flatten([i \in 1..m |-> Combos(in_list, i)])

\* dict(zip(names, inputs))
Zip(names, inputs) == [k \in Range(names) |-> Str(inputs[IndexOf(names, k)])]

\* map_field_inputs(names, combos): every assignment of every permutation of
\* every combination of matching size; one empty mapping for no names
MapFieldInputs(names, combos) ==
  IF names = <<>> THEN << <<>> >>
  ELSE Flatten([c \in 1..Len(combos) |->
         IF Len(combos[c]) = Len(names)
         THEN LET ps == Perms(combos[c])
              IN  [p \in 1..Len(ps) |-> Zip(names, ps[p])]
         ELSE <<>>])

(* --------------------------- EntityTester ---------------------------- *)
PullEntities == DictionaryExclusion(Entities, {})

PullFields(e, exclude) == DictionaryExclusion(EntityFields(e), exclude)

PullMethods(e, exclude) == DictionaryExclusion(EntityMethods(e), exclude)

PullInputMethods(exclude) == DictionaryExclusion(InputMethods, exclude)

\* the names a tester is constructed with, and prep's entity argument
EntityNames == {"Widget", "Gadget", "Nope", ""}
FieldExcludes == {{}, {"size"}, {"name", "size"}}
MethodExcludes == {{}, {"search"}, {"search", "update"}}

\* brute_force, line 57
InputListAll == PullInputMethods({})
InputList == PullInputMethods({"long"})

\* brute_force, lines 58-59
EffMaxInputs(max_inputs, input_list) ==
  IF max_inputs = None \/ max_inputs = 0 THEN Len(input_list) ELSE max_inputs

\* brute_force, line 69
ArgBoundOffByOne(max_inputs, args) ==
  IF max_inputs < Len(args) THEN max_inputs ELSE Len(args) - 1
ArgBound(max_inputs, args) ==
  IF max_inputs <= Len(args) THEN max_inputs ELSE Len(args)

\* brute_force, line 64: the operation's list starts empty in every call
\* (the alternative: it starts as the previous call left it, that call
\* having started from an empty one)
StaleMethodComboList(m) ==
  IF /\ prev.status = "done"
     /\ m \in DOMAIN prev.method_combo_dict
     /\ Len(prev.method_combo_dict[m]) <= Len(InputList)
  THEN prev.method_combo_dict[m] ELSE <<>>
NewMethodComboList(m) == <<>>

\* brute_force, lines 62-70
MethodComboDict(e, meths, input_list, max_inputs) ==
  [m \in Range(meths) |->
     NewMethodComboList(m) \o
     MapFieldInputs(PullArgs(e, m),
                    ProductList(input_list, ArgBound(max_inputs, PullArgs(e, m))))]

\* brute_force, line 75
FieldInputsOfAll(combo, flds, input_combos) == MapFieldInputs(flds, input_combos)
FieldInputs(combo, flds, input_combos) == MapFieldInputs(combo, input_combos)

Task(e, m, fd, ad) == [entity |-> e, method |-> m, field_dict |-> fd, arg_dict |-> ad]

\* brute_force, lines 76-84: the tasks of one field mapping
TasksOfMapping(e, meths, mcd, fi) ==
  Flatten([j \in 1..Len(meths) |->
     [k \in 1..Len(mcd[meths[j]]) |-> Task(e, meths[j], fi, mcd[meths[j]][k])]])

\* brute_force, lines 73-84, with the operation loop outermost
YieldedMethodFirst(e, meths, mcd, field_inputs) ==
  Flatten([j \in 1..Len(meths) |->
    Flatten([c \in 1..Len(field_inputs) |->
      Flatten([f \in 1..Len(field_inputs[c]) |->
        [k \in 1..Len(mcd[meths[j]]) |->
           Task(e, meths[j], field_inputs[c][f], mcd[meths[j]][k])]])])])

\* brute_force, lines 73-84: everything the generator yields, in order
Yielded(e, meths, mcd, field_inputs) ==
  Flatten([c \in 1..Len(field_inputs) |->
    Flatten([f \in 1..Len(field_inputs[c]) |->
      TasksOfMapping(e, meths, mcd, field_inputs[c][f])])])

\* a generator object that was never created
NoGen ==
  [status |-> "none", max_fields |-> None, max_inputs |-> None,
   snap |-> [entity |-> "", fields |-> Unset, methods |-> Unset, excl |-> <<{}, {}>>],
   method_combo_dict |-> <<>>, field_combo_list |-> <<>>, field_inputs |-> <<>>,
   todo |-> <<>>, out |-> <<>>]

\* the generator's frame once lines 55-72 have run
Started(g) ==
  LET e    == entity.name
      il   == InputList
      mi   == EffMaxInputs(g.max_inputs, il)
      ic   == ProductList(il, mi)
      mcd  == MethodComboDict(e, methods.keys, il, mi)
      fcl  == CombinationList(fields.keys, g.max_fields)
      fis  == [c \in 1..Len(fcl) |-> FieldInputs(fcl[c], fields.keys, ic)]
  IN  [g EXCEPT !.snap = [entity |-> e, fields |-> fields, methods |-> methods,
                          excl |-> excl],
                !.method_combo_dict = mcd,
                !.field_combo_list = fcl,
                !.field_inputs = fis,
                !.todo = Yielded(e, methods.keys, mcd, fis)]

NoTask == Task("", "", <<>>, <<>>)
NoOutcome == [kind |-> "none", what |-> "", at |-> ""]

TesterInit ==
  /\ entity \in {[isstr |-> TRUE, name |-> n] : n \in EntityNames}
  /\ fields = Unset
  /\ methods = Unset
  /\ excl = <<{}, {}>>
  /\ prepped = "no"
  /\ gen = NoGen
  /\ prev = NoGen

Init ==
  /\ TesterInit
  /\ task = NoTask /\ orig = NoTask /\ outcome = NoOutcome /\ execs = 0

\* prep(entity, field_exclude, method_exclude), lines 25-38; the caller
\* prepares a tester before it asks for a sequence (Main.brute)
Prep(ent, field_exclude, method_exclude) ==
  LET name     == IF entity.isstr THEN entity.name ELSE ent
      resolved == IF name # "" /\ name \in Range(PullEntities)
                  THEN [isstr |-> FALSE, name |-> name] ELSE entity
  IN  /\ gen.status = "none"
      /\ entity' = resolved
      /\ IF resolved.isstr
         THEN IF resolved.name # ""
              THEN \* pull_fields calls the string: 'str' object is not callable
                   /\ prepped' = "TypeError"
                   /\ UNCHANGED <<fields, methods, excl>>
              ELSE /\ prepped' = "returned"
                   /\ UNCHANGED <<fields, methods, excl>>
         ELSE /\ fields' = Dict(PullFields(resolved.name, field_exclude))
              /\ methods' = Dict(PullMethods(resolved.name, method_exclude))
              /\ excl' = <<field_exclude, method_exclude>>
              /\ prepped' = "returned"
      /\ UNCHANGED <<gen, prev, taskVars>>

\* the caller lets go of the generators it has finished with
Discard ==
  /\ gen.status \in {"done", "raised"}
  /\ gen' = NoGen
  /\ prev' = NoGen
  /\ UNCHANGED <<entity, fields, methods, excl, prepped, taskVars>>

\* brute_force(max_fields, max_inputs): creates the generator; no line of the
\* body runs before the first item is requested
BruteForce(max_fields, max_inputs) ==
  /\ gen.status \in {"none", "done", "raised"}
  /\ prev' = IF gen.status = "done" THEN gen ELSE prev
  /\ gen' = [NoGen EXCEPT !.status = "created",
                          !.max_fields = max_fields, !.max_inputs = max_inputs]
  /\ UNCHANGED <<entity, fields, methods, excl, prepped, taskVars>>

\* the first next() on the generator: lines 55-72, then the first yield
FirstPull ==
  /\ gen.status = "created"
  /\ IF entity.isstr
     THEN \* line 55: a str has no __name__ (AttributeError)
          gen' = [gen EXCEPT !.status = "raised"]
     ELSE IF methods.unset
     THEN \* line 63: None is not iterable (TypeError)
          gen' = [gen EXCEPT !.status = "raised"]
     ELSE LET g == Started(gen)
          IN  gen' = IF g.todo = <<>>
                     THEN [g EXCEPT !.status = "done"]
                     ELSE [g EXCEPT !.status = "running", !.out = <<g.todo[1]>>]
  /\ UNCHANGED <<entity, fields, methods, excl, prepped, prev, taskVars>>

\* a later next(): the following yield, or the end of the sequence
Pull ==
  /\ gen.status = "running"
  /\ gen' = IF Len(gen.out) < Len(gen.todo)
            THEN [gen EXCEPT !.out = Append(@, gen.todo[Len(gen.out) + 1])]
            ELSE [gen EXCEPT !.status = "done"]
  /\ UNCHANGED <<entity, fields, methods, excl, prepped, prev, taskVars>>

Next ==
  \/ \E ent \in {"", "Gadget"}, fe \in FieldExcludes, me \in MethodExcludes :
       Prep(ent, fe, me)
  \/ \E mf \in {None} \cup 0..MaxFieldsArg, mi \in {None} \cup 0..MaxInputsArg :
       BruteForce(mf, mi)
  \/ FirstPull
  \/ Pull
  \/ Discard

Spec == Init /\ [][Next]_vars

(* --------------------------- EntityTestTask -------------------------- *)
\* execute, lines 150-153: imeths.get(inpt, lambda: inpt)() for every item
ResolveNothing(d, r) == d
Resolve(d, r) ==
  [k \in DOMAIN d |->
     IF d[k].kind = "str" /\ d[k].of \in Range(PullInputMethods({}))
     THEN Produced(d[k].of, r[k]) ELSE d[k]]

\* dict.get hashes its key: a list raises TypeError
Unhashable(d) == \E k \in DOMAIN d : ~Hashable(d[k])

Returned(w) == [kind |-> "returned", what |-> w, at |-> "invoke"]
Raised(w, a) == [kind |-> "raised", what |-> w, at |-> a]

\* execute, lines 154-161, on the resolved task
Invoke(t, op) ==
  IF t.entity \notin Range(PullEntities)
  THEN Raised("KeyError", "lookup")
  ELSE IF ~(DOMAIN t.field_dict \subseteq Range(EntityFields(t.entity)))
  THEN Raised("TypeError", "construct")
  ELSE IF t.method \notin Range(EntityMethods(t.entity))
  THEN Returned("AttributeError")
  ELSE IF ~(DOMAIN t.arg_dict \subseteq Range(PullArgs(t.entity, t.method)))
  THEN Returned("TypeError")
  ELSE Returned(op)

\* execute(), lines 144-161
Execute ==
  /\ execs < MaxExec
  /\ \E rf \in [DOMAIN task.field_dict -> 0..MaxRand],
        ra \in [DOMAIN task.arg_dict -> 0..MaxRand],
        op \in {"result", "Exception"} :
       IF Unhashable(task.field_dict)
       THEN /\ task' = task
            /\ outcome' = Raised("TypeError", "resolve")
       ELSE IF Unhashable(task.arg_dict)
       THEN /\ task' = [task EXCEPT !.field_dict = Resolve(@, rf)]
            /\ outcome' = Raised("TypeError", "resolve")
       ELSE /\ task' = [task EXCEPT !.field_dict = Resolve(@, rf),
                                    !.arg_dict = Resolve(@, ra)]
            /\ outcome' = Invoke(task', op)
  /\ execs' = execs + 1
  /\ UNCHANGED <<orig, testerVars>>

\* the values a hand-written or imported task may carry
Literals == {Str("gen_alpha"), Str("gen_long_string"), Str("plain"), ListLit}

Mappings(keysets) == UNION {[ks -> Literals] : ks \in keysets}

\* the tasks brute_force yields for the whole of Widget
WidgetTasks ==
  LET il  == PullInputMethods({"long"})
      ic  == ProductList(il, Len(il))
      fs  == EntityFields("Widget")
      ms  == EntityMethods("Widget")
      fcl == CombinationList(fs, None)
  IN  Range(Yielded("Widget", ms, MethodComboDict("Widget", ms, il, Len(il)),
                    [c \in 1..Len(fcl) |-> FieldInputs(fcl[c], fs, ic)]))

\* EntityTestTask(entity, method, field_dict, arg_dict), lines 139-142
Tasks ==
  WidgetTasks \cup
  {Task(e, m, fd, ad) :
     e \in {"Widget", "Nope"}, m \in {"update", "bogus"},
     fd \in Mappings({{}, {"name"}, {"bogus"}, {"name", "size"}}),
     ad \in Mappings({{}, {"fields"}, {"nope"}})}

ExecInit ==
  /\ TesterInit
  /\ task \in Tasks
  /\ orig = task
  /\ outcome = NoOutcome
  /\ execs = 0

ExecNext == Execute

SpecExec == ExecInit /\ [][ExecNext]_vars

(* ----------------------------- properties ---------------------------- *)
\* the generators that are not long-running, and the tasks yielded so far
EligibleInputs == {g \in Range(InputMethods) : g \notin LongInputs}
HasStarted == gen.status \in {"running", "done"}
Out == gen.out
Last == Len(gen.out)

\* P(n, k), the number of k-permutations of n
RECURSIVE Falling(_, _)
Falling(n, k) == IF k = 0 THEN 1 ELSE n * Falling(n - 1, k - 1)

RECURSIVE SumSeq(_)
SumSeq(s) == IF s = <<>> THEN 0 ELSE Head(s) + SumSeq(Tail(s))

Injective(f) == \A a, b \in DOMAIN f : a # b => f[a] # f[b]

\* brute_force's bound on inputs, and whether it leaves room for F
InputsCap == IF gen.max_inputs \in {None, 0} THEN Cardinality(EligibleInputs)
             ELSE gen.max_inputs
FieldsCap == IF gen.max_fields = None \/ gen.max_fields > Len(gen.snap.fields.keys)
             THEN Len(gen.snap.fields.keys) ELSE gen.max_fields

\* maps is the list of all bijections from F onto |F| generators of G
AllInjections(F, maps) ==
  /\ Len(maps) = Falling(Cardinality(EligibleInputs), Len(F))
  /\ \A i \in DOMAIN maps :
       /\ DOMAIN maps[i] = Range(F)
       /\ Injective(maps[i])
       /\ \A k \in DOMAIN maps[i] :
            maps[i][k].kind = "str" /\ maps[i][k].of \in EligibleInputs
  /\ \A i, j \in DOMAIN maps : i # j => maps[i] # maps[j]

MappingsBuilt(requireRoom) ==
  HasStarted =>
    /\ \A c \in DOMAIN gen.field_combo_list :
         LET F == gen.field_combo_list[c]
         IN  (Cardinality(EligibleInputs) >= Len(F)
              /\ (requireRoom => InputsCap >= Len(F)))
             => AllInjections(F, gen.field_inputs[c])
    /\ \A m \in DOMAIN gen.method_combo_dict :
         LET F == PullArgs(gen.snap.entity, m)
         IN  (Cardinality(EligibleInputs) >= Len(F)
              /\ (requireRoom => InputsCap >= Len(F)))
             => AllInjections(F, gen.method_combo_dict[m])

\* C1: execute() always returns a value, the operation's result or a
\* captured failure object; no failure of generator resolution, entity
\* lookup, entity construction or invocation escapes it.
C1_ExecuteNeverRaises == outcome.kind # "raised"

\* C2: on a tester that prep() never prepared, pulling from brute_force
\* yields the empty sequence and does not fail.
C2_UnpreparedYieldsEmpty ==
  (fields.unset /\ gen.status \notin {"none", "created"})
    => (gen.status = "done" /\ gen.out = <<>>)

\* C3: prep() on a tester whose entity name is not in the registry does not
\* fail and leaves fields and methods unset.
C3_UnresolvedPrepIsQuiet ==
  (prepped # "no" /\ entity.isstr)
    => (prepped = "returned" /\ fields.unset /\ methods.unset)

C5_InjectionsWithinBound == MappingsBuilt(TRUE)

\* C5 (as claimed): the same for every max_inputs.
C5_InjectionsAlways == MappingsBuilt(FALSE)

C5_Witness ==
  /\ HasStarted
  /\ gen.max_inputs = 2
  /\ \E c \in DOMAIN gen.field_combo_list :
       Len(gen.field_combo_list[c]) = 2 /\ Len(gen.field_inputs[c]) = 2
  /\ "search" \in DOMAIN gen.method_combo_dict
  /\ Len(gen.method_combo_dict["search"]) = 2

\* C6: with max_fields = 0, or for an entity without fields, the field
\* subsets enumerated are exactly one empty subset, and the sequence holds
\* one task with an empty field mapping per (operation, argument mapping).
C6_OneEmptySubset ==
  (gen.status = "done"
   /\ (gen.max_fields = 0 \/ gen.snap.fields.keys = <<>>))
    => /\ gen.field_combo_list = << <<>> >>
       /\ Len(gen.out) =
            SumSeq([j \in 1..Len(gen.snap.methods.keys) |->
                      Len(gen.method_combo_dict[gen.snap.methods.keys[j]])])
       /\ \A i \in DOMAIN gen.out : gen.out[i].field_dict = <<>>

\* the field subsets, field mappings and argument mappings of a run, stated
\* as sets
ExpectedSubsets ==
  {S \in SUBSET Range(gen.snap.fields.keys) :
     Cardinality(S) >= 1 /\ Cardinality(S) <= FieldsCap}
Injections(S) ==
  IF Cardinality(S) <= InputsCap
  THEN {f \in [S -> {Str(g) : g \in EligibleInputs}] : Injective(f)}
  ELSE {}
ExpectedFieldMaps == UNION {Injections(S) : S \in ExpectedSubsets}
ExpectedArgMaps(m) == Injections(Range(PullArgs(gen.snap.entity, m)))
ExpectedTasks ==
  {Task(gen.snap.entity, m, fd, ad) :
     <<m, fd, ad>> \in
       UNION {{<<m, fd, ad>> : fd \in ExpectedFieldMaps, ad \in ExpectedArgMaps(m)} :
                m \in Range(gen.snap.methods.keys)}}

\* tasks i and j lie in the same group of the nesting, at each level
SameSubset(i, j) == DOMAIN Out[i].field_dict = DOMAIN Out[j].field_dict
SameMapping(i, j) == Out[i].field_dict = Out[j].field_dict
SameMethod(i, j) == SameMapping(i, j) /\ Out[i].method = Out[j].method

\* C7: on a prepared tester the sequence holds exactly one task per triple
\* (field mapping, operation, argument mapping of that operation): its
\* length is (field mappings) x (sum over operations of argument mappings),
\* every task names the prepared entity, and the tasks are nested by field
\* subset, then field mapping, then operation, then argument mapping.
C7_OneTaskPerTriple ==
  HasStarted =>
    /\ \A i \in DOMAIN Out : Out[i].entity = gen.snap.entity
    /\ \A i \in 1..(Last - 1) :
         /\ SameSubset(i, Last) => SameSubset(Last - 1, Last)
         /\ SameMapping(i, Last) => SameMapping(Last - 1, Last)
         /\ SameMethod(i, Last) => SameMethod(Last - 1, Last)
         /\ Out[i] # Out[Last]
    /\ Range(Out) \subseteq ExpectedTasks
    /\ gen.status = "done" =>
         /\ Range(Out) = ExpectedTasks
         /\ Len(Out) = Cardinality(ExpectedFieldMaps) *
              SumSeq([j \in 1..Len(gen.snap.methods.keys) |->
                 Cardinality(ExpectedArgMaps(gen.snap.methods.keys[j]))])

C7_Witness ==
  /\ gen.status = "done"
  /\ Len(Out) > 10
  /\ Cardinality({Out[i].method : i \in DOMAIN Out}) > 1
  /\ Cardinality({DOMAIN Out[i].field_dict : i \in DOMAIN Out}) > 1
  /\ Cardinality({Out[i].field_dict : i \in DOMAIN Out}) > 3

\* C8: after prep(field_exclude, method_exclude) and brute_force, no task
\* names an excluded operation, no field mapping has an excluded field as a
\* key, and no mapping uses a long-running generator.
C8_ExclusionsRespected ==
  HasStarted =>
    \A i \in DOMAIN Out :
      /\ Out[i].method \notin gen.snap.excl[2]
      /\ DOMAIN Out[i].field_dict \cap gen.snap.excl[1] = {}
      /\ \A k \in DOMAIN Out[i].field_dict : Out[i].field_dict[k].of \notin LongInputs
      /\ \A k \in DOMAIN Out[i].arg_dict : Out[i].arg_dict[k].of \notin LongInputs

C8_Witness ==
  /\ gen.status = "done"
  /\ gen.snap.excl = <<{"size"}, {"search"}>>
  /\ Len(Out) > 2
  /\ \E i \in DOMAIN Out : Out[i].arg_dict # <<>>

\* C9 (as amended): one execute() of a task whose values are all hashable
\* keeps the key sets of both mappings, replaces every value that names a
\* generator by a value of that generator, keeps every other value as it
\* is, and leaves the entity and method names alone.
Rewritten(old, new) ==
  /\ DOMAIN new = DOMAIN old
  /\ \A k \in DOMAIN old :
       IF old[k].kind = "str" /\ old[k].of \in Range(InputMethods)
       THEN new[k].kind = "val" /\ new[k].of = old[k].of
       ELSE new[k] = old[k]

TaskRewritten ==
  /\ Rewritten(orig.field_dict, task.field_dict)
  /\ Rewritten(orig.arg_dict, task.arg_dict)
  /\ task.entity = orig.entity /\ task.method = orig.method

C10_DistinctAndWhole ==
  HasStarted =>
    /\ \A i, j \in DOMAIN Out : i < j => Out[i] # Out[j]
    /\ \A i \in DOMAIN Out : DOMAIN Out[i].field_dict \in ExpectedSubsets

C10_Witness ==
  /\ gen.status = "done"
  /\ gen.max_inputs = 1
  /\ \E c \in DOMAIN gen.field_combo_list : Len(gen.field_combo_list[c]) = 2
  /\ \E i \in DOMAIN Out : Out[i].arg_dict = <<>>
  /\ Len(Out) > 3

====
